---- MODULE Spec2Model ----
(***************************************************************************)
(* State machine of the todo application in src/src/App.jsx: the App       *)
(* component's state (todos, filter, dark), the memoised filtered list,    *)
(* the two localStorage entries, and the wall clock that Date.now() reads. *)
(* A start that throws leaves the application crashed.                     *)
(* Every handler is one action and includes the render and the effects     *)
(* (useEffect) that React runs before the next event is handled.           *)
(***************************************************************************)
EXTENDS Naturals, Sequences, FiniteSets, TLC

(* ------------------------------ bounds -------------------------------- *)

\* The clock takes the values 0..MaxClock (milliseconds after some epoch).
MaxClock == 2

\* addTodo is not offered once the collection holds MaxTodos tasks.
MaxTodos == 3

(* ------------------------- values of the program ---------------------- *)

\* The options of the priority <select> of AddTodo.
Priorities == {"low", "medium", "high"}

\* The option the model selects: one that is not the default of the
\* <select>, so that a default stored in place of the selection shows.
SelectedPriorities == {"high"}

\* The buttons of FilterBar.
filters == <<"all", "active", "completed">>

Filters == {filters[i] : i \in 1..Len(filters)}

\* Characters that String.prototype.trim removes (those the inputs use).
WhiteSpace == {" ", "\t", "\n"}

\* A text is the sequence of its characters.  What the user may type into
\* the input of AddTodo: nothing, white space only, text with leading white
\* space.
Texts == {<< >>, <<"\t", " ">>, <<" ", "a">>}

Clock == 0..MaxClock

VARIABLES
    todos,      \* App state: the collection, newest first
    filter,     \* App state: the current filter
    dark,       \* App state: the theme flag
    memo,       \* the value useMemo holds (filteredTodos), given to the view
    storage,    \* localStorage: a function from the keys present to text
    now,        \* the wall clock as it was last read
    status,     \* "running", or "crashed" when a render or initialiser threw
    last        \* history: the handler that ran last and how it ended

vars == <<todos, filter, dark, memo, storage, now, status, last>>

(* ------------------------------ strings ------------------------------- *)

RECURSIVE trimStart(_)
trimStart(text) ==
    IF text # << >> /\ Head(text) \in WhiteSpace
    THEN trimStart(Tail(text))
    ELSE text

RECURSIVE trimEnd(_)
trimEnd(text) ==
    IF text # << >> /\ text[Len(text)] \in WhiteSpace
    THEN trimEnd(SubSeq(text, 1, Len(text) - 1))
    ELSE text

\* String.prototype.trim
trim(text) == trimEnd(trimStart(text))

\* the decimal numerals of 0..9
Digits == <<"0", "1", "2", "3", "4", "5", "6", "7", "8", "9">>

\* Date.prototype.toISOString of the instant `ms` milliseconds after the epoch
toISOString(ms) == "1970-01-01T00:00:00.00" \o Digits[ms + 1] \o "Z"

(* ------------------------------- arrays ------------------------------- *)

\* Array.prototype.filter: the elements that pass, in the order of arr
ArrayFilter(arr, keep(_)) ==
    LET kept[i \in 0..Len(arr)] ==
            IF i = 0 THEN << >>
            ELSE IF keep(arr[i]) THEN Append(kept[i - 1], arr[i])
            ELSE kept[i - 1]
    IN  kept[Len(arr)]

\* Array.prototype.map
ArrayMap(arr, f(_)) == [i \in 1..Len(arr) |-> f(arr[i])]

(* -------------------------------- JSON -------------------------------- *)
(* A stored text is a sequence of lexical atoms: punctuation, literals,    *)
(* a member's key with its colon, and for a string value a quote, its      *)
(* content, a quote.                                                       *)

Quote == "\""

\* the literal of a boolean
BoolLiteral(b) == IF b THEN "true" ELSE "false"

\* JSON.stringify of a boolean
StringifyBool(b) == <<BoolLiteral(b)>>

\* A task object: the number as its numeral, text as its characters
\* between quotes, priority and createdAt as one atom between quotes.
StringifyTodo(t) ==
    <<"{", "id:", Digits[t.id + 1], ",", "text:", Quote>>
        \o t.text
        \o <<Quote, ",", "completed:", BoolLiteral(t.completed),
             ",", "priority:", Quote, t.priority, Quote,
             ",", "createdAt:", Quote, t.createdAt, Quote, "}">>

\* the elements, with a comma between two of them
StringifyElements(arr) ==
    LET out[i \in 0..Len(arr)] ==
            IF i = 0 THEN << >>
            ELSE IF i = 1 THEN StringifyTodo(arr[1])
            ELSE out[i - 1] \o <<",">> \o StringifyTodo(arr[i])
    IN  out[Len(arr)]

\* JSON.stringify of the collection
JSON_stringify(arr) == <<"[">> \o StringifyElements(arr) \o <<"]">>

\* The results of JSON.parse: a value, or a SyntaxError thrown.
SyntaxError == [ok |-> FALSE, kind |-> "error", val |-> << >>, next |-> 0]

Parsed(kind, val, next) == [ok |-> TRUE, kind |-> kind, val |-> val, next |-> next]

At(s, i, atom) == i <= Len(s) /\ s[i] = atom

\* the index of the first quote at or after i, or 0
RECURSIVE ClosingQuote(_, _)
ClosingQuote(s, i) ==
    IF i > Len(s) THEN 0
    ELSE IF s[i] = Quote THEN i
    ELSE ClosingQuote(s, i + 1)

\* a string value starting at i: its content and the index after it
ParseString(s, i) ==
    IF ~At(s, i, Quote) THEN SyntaxError
    ELSE LET j == ClosingQuote(s, i + 1)
         IN  IF j = 0 THEN SyntaxError
             ELSE Parsed("string", SubSeq(s, i + 1, j - 1), j + 1)

ParseNumber(s, i) ==
    IF i <= Len(s) /\ \E n \in 1..Len(Digits) : Digits[n] = s[i]
    THEN Parsed("number", (CHOOSE n \in 1..Len(Digits) : Digits[n] = s[i]) - 1, i + 1)
    ELSE SyntaxError

ParseBool(s, i) ==
    IF At(s, i, "true") THEN Parsed("boolean", TRUE, i + 1)
    ELSE IF At(s, i, "false") THEN Parsed("boolean", FALSE, i + 1)
    ELSE SyntaxError

\* a task object starting at i
ParseTodo(s, i) ==
    IF ~(At(s, i, "{") /\ At(s, i + 1, "id:")) THEN SyntaxError
    ELSE LET id == ParseNumber(s, i + 2) IN
    IF ~(id.ok /\ At(s, id.next, ",") /\ At(s, id.next + 1, "text:"))
    THEN SyntaxError
    ELSE LET text == ParseString(s, id.next + 2) IN
    IF ~(text.ok /\ At(s, text.next, ",") /\ At(s, text.next + 1, "completed:"))
    THEN SyntaxError
    ELSE LET completed == ParseBool(s, text.next + 2) IN
    IF ~(completed.ok /\ At(s, completed.next, ",")
            /\ At(s, completed.next + 1, "priority:")) THEN SyntaxError
    ELSE LET priority == ParseString(s, completed.next + 2) IN
    IF ~(priority.ok /\ Len(priority.val) = 1 /\ At(s, priority.next, ",")
            /\ At(s, priority.next + 1, "createdAt:")) THEN SyntaxError
    ELSE LET createdAt == ParseString(s, priority.next + 2) IN
    IF ~(createdAt.ok /\ Len(createdAt.val) = 1 /\ At(s, createdAt.next, "}"))
    THEN SyntaxError
    ELSE Parsed("object",
                [id |-> id.val, text |-> text.val, completed |-> completed.val,
                 priority |-> priority.val[1], createdAt |-> createdAt.val[1]],
                createdAt.next + 1)

\* the elements of an array from i on, after the elements `acc`
RECURSIVE ParseElements(_, _, _)
ParseElements(s, i, acc) ==
    LET t == ParseTodo(s, i) IN
    IF ~t.ok THEN SyntaxError
    ELSE IF At(s, t.next, ",") THEN ParseElements(s, t.next + 1, Append(acc, t.val))
    ELSE IF At(s, t.next, "]") /\ t.next = Len(s)
         THEN Parsed("array", Append(acc, t.val), t.next + 1)
    ELSE SyntaxError

\* JSON.parse, on the texts the model meets: the literals null, true and
\* false, arrays of task objects, and texts that are no JSON at all.
JSON_parse(s) ==
    IF s = <<"null">> THEN Parsed("null", << >>, 2)
    ELSE IF s = <<"true">> \/ s = <<"false">> THEN ParseBool(s, 1)
    ELSE IF s = <<"[", "]">> THEN Parsed("array", << >>, 3)
    ELSE IF At(s, 1, "[") THEN ParseElements(s, 2, << >>)
    ELSE SyntaxError

(* ---------------------------- localStorage ---------------------------- *)

TodosKey == "modern_todos"

ThemeKey == "theme_mode"

\* localStorage.getItem: the text stored under the key, or null
getItem(store, key) ==
    IF key \in DOMAIN store
    THEN [isNull |-> FALSE, text |-> store[key]]
    ELSE [isNull |-> TRUE, text |-> << >>]

\* localStorage.setItem
setItem(store, key, text) ==
    [k \in DOMAIN store \cup {key} |-> IF k = key THEN text ELSE store[k]]

\* Truthiness of what getItem returned: null and the empty string are falsy.
Truthy(saved) == ~saved.isNull /\ saved.text # << >>

(* ------------------------------ the App ------------------------------- *)

\* useMemo given an empty dependency list
useMemo_noDeps(cached, changed, fresh) == cached

\* useMemo: the cached value unless a dependency changed
useMemo(cached, changed, fresh) == IF changed THEN fresh ELSE cached

\* the function memoised as filteredTodos
filteredTodos(arr, f) ==
    IF f = "active" THEN ArrayFilter(arr, LAMBDA t : ~t.completed)
    ELSE IF f = "completed" THEN ArrayFilter(arr, LAMBDA t : t.completed)
    ELSE arr

\* the effect on [todos] never running
PersistTodos_skipped(store, arr) == store

\* the effect on [todos]
PersistTodos(store, arr) == setItem(store, TodosKey, JSON_stringify(arr))

\* the effect on [dark] writing under the key of the collection
PersistTheme_wrongKey(store, d) == setItem(store, TodosKey, StringifyBool(d))

\* the effect on [dark]
PersistTheme(store, d) == setItem(store, ThemeKey, StringifyBool(d))

\* the initialiser of the todos state
InitialTodos(store) ==
    LET saved == getItem(store, TodosKey)
    IN  IF Truthy(saved) THEN JSON_parse(saved.text) ELSE Parsed("array", << >>, 0)

\* the initialiser of the dark state
InitialDark(store) ==
    LET saved == getItem(store, ThemeKey)
    IN  IF Truthy(saved) THEN JSON_parse(saved.text) ELSE Parsed("boolean", FALSE, 0)

\* What is left of the component when an initialiser or the first render
\* threw: nothing is mounted and no effect has run.
Crashed(store) ==
    [status |-> "crashed", todos |-> << >>, filter |-> "all", dark |-> FALSE,
     memo |-> << >>, storage |-> store]

\* Mounting App over the stored entries: the three initialisers, the first
\* render (which reads todos.length and calls todos.filter) and the two
\* effects.  JSON.parse throws on text that is no JSON; a parsed value that
\* is no array makes the render throw.  (No initial store of the model
\* holds JSON other than a boolean under theme_mode.)
Mount(store) ==
    LET t == InitialTodos(store)
        d == InitialDark(store)
    IN  IF ~t.ok \/ ~d.ok THEN Crashed(store)
        ELSE IF t.kind # "array" \/ d.kind # "boolean" THEN Crashed(store)
        ELSE [status |-> "running", todos |-> t.val, filter |-> "all",
              dark |-> d.val, memo |-> filteredTodos(t.val, "all"),
              storage |-> PersistTheme(PersistTodos(store, t.val), d.val)]

\* Texts that may be stored under modern_todos before the first start:
\* the empty string, an empty collection, the literal null, a truncated
\* write and text that is no JSON.
StoredTodosTexts == {<< >>, <<"[", "]">>, <<"null">>, <<"[", "{">>, <<"<", "html", ">">>}

\* Texts that may be stored under theme_mode before the first start.
StoredThemeTexts == {<<"true">>, <<"false">>, <<"tru">>}

\* the stores the first start may find
InitialStores ==
    {[k \in {} |-> << >>]}
        \cup {[k \in {TodosKey} |-> t] : t \in StoredTodosTexts}
        \cup {[k \in {ThemeKey} |-> d] : d \in StoredThemeTexts}
        \cup {[k \in {TodosKey, ThemeKey} |-> IF k = TodosKey THEN t ELSE d] :
                    t \in StoredTodosTexts, d \in StoredThemeTexts}

Mounted(m) ==
    /\ status' = m.status
    /\ todos' = m.todos
    /\ filter' = m.filter
    /\ dark' = m.dark
    /\ memo' = m.memo
    /\ storage' = m.storage

Init ==
    \E store \in InitialStores :
        \E m \in {Mount(store)} :
            /\ status = m.status
            /\ todos = m.todos
            /\ filter = m.filter
            /\ dark = m.dark
            /\ memo = m.memo
            /\ storage = m.storage
            /\ now = 0
            /\ last = "mount"

\* The page is loaded again: the component state is rebuilt from storage.
Restart ==
    /\ last' = "restart"
    /\ \E m \in {Mount(storage)} : Mounted(m)
    /\ UNCHANGED now

\* the test without trim
isBlank_untrimmed(text) == text = << >>

\* the test that makes addTodo return at once
isBlank(text) == trim(text) = << >>

\* the new task put last
prependTodo_atEnd(newTodo, prev) == prev \o <<newTodo>>

\* the updater addTodo gives setTodos
prependTodo(newTodo, prev) == <<newTodo>> \o prev

\* the updater toggleTodo gives setTodos
toggleById(id, prev) ==
    ArrayMap(prev, LAMBDA t : IF t.id = id
                              THEN [t EXCEPT !.completed = ~t.completed]
                              ELSE t)

\* the updater deleteTodo gives setTodos
removeById(id, prev) == ArrayFilter(prev, LAMBDA t : t.id # id)

\* the completed tasks kept instead
removeCompleted_inverted(prev) == ArrayFilter(prev, LAMBDA t : t.completed)

\* the updater clearCompleted gives setTodos
removeCompleted(prev) == ArrayFilter(prev, LAMBDA t : ~t.completed)

\* Date.now(): what the clock shows when it is read, which is the last
\* reading or later.
Date_now == {t \in Clock : t >= now}

\* The form of AddTodo is submitted with `text` in the input and `priority`
\* selected.  The clock is read once the text has passed the test; id and
\* createdAt are taken from that reading.
addTodo(text, priority) ==
    /\ status = "running"
    /\ IF isBlank(text)
       THEN /\ last' = "addTodo_blank"
            /\ UNCHANGED <<todos, filter, dark, memo, storage, now, status>>
       ELSE /\ Len(todos) < MaxTodos
            /\ last' = "addTodo"
            /\ now' \in Date_now
            /\ LET newTodo == [id |-> now', text |-> text, completed |-> FALSE,
                               priority |-> priority, createdAt |-> toISOString(now')]
               IN  todos' = prependTodo(newTodo, todos)
            /\ memo' = useMemo(memo, TRUE, filteredTodos(todos', filter))
            /\ storage' = PersistTodos(storage, todos')
            /\ UNCHANGED <<filter, dark, status>>

toggleTodo(id) ==
    /\ status = "running"
    /\ last' = "toggleTodo"
    /\ todos' = toggleById(id, todos)
    /\ memo' = useMemo(memo, TRUE, filteredTodos(todos', filter))
    /\ storage' = PersistTodos(storage, todos')
    /\ UNCHANGED <<filter, dark, now, status>>

deleteTodo(id) ==
    /\ status = "running"
    /\ last' = "deleteTodo"
    /\ todos' = removeById(id, todos)
    /\ memo' = useMemo(memo, TRUE, filteredTodos(todos', filter))
    /\ storage' = PersistTodos(storage, todos')
    /\ UNCHANGED <<filter, dark, now, status>>

clearCompleted ==
    /\ status = "running"
    /\ last' = IF \E i \in 1..Len(todos) : todos[i].completed
               THEN "clearCompleted" ELSE "clearCompleted_none"
    /\ todos' = removeCompleted(todos)
    /\ memo' = useMemo(memo, TRUE, filteredTodos(todos', filter))
    /\ storage' = PersistTodos(storage, todos')
    /\ UNCHANGED <<filter, dark, now, status>>

\* a button of FilterBar
setFilter(f) ==
    /\ status = "running"
    /\ last' = "setFilter"
    /\ filter' = f
    /\ memo' = useMemo(memo, f # filter, filteredTodos(todos, f))
    /\ UNCHANGED <<todos, dark, storage, now, status>>

\* the theme button of the header
toggleDark ==
    /\ status = "running"
    /\ last' = "toggleDark"
    /\ dark' = ~dark
    /\ storage' = PersistTheme(storage, dark')
    /\ UNCHANGED <<todos, filter, memo, now, status>>

Next ==
    \/ \E text \in Texts, priority \in SelectedPriorities : addTodo(text, priority)
    \/ \E id \in Clock : toggleTodo(id)
    \/ \E id \in Clock : deleteTodo(id)
    \/ clearCompleted
    \/ \E f \in Filters : setFilter(f)
    \/ toggleDark
    \/ Restart

Spec == Init /\ [][Next]_vars

(* ------------------------------ properties ---------------------------- *)

\* the steps of the four handlers that change the collection
AddStep(text) == \E priority \in Priorities : addTodo(text, priority)

MutationStep ==
    \/ \E text \in Texts : AddStep(text)
    \/ \E id \in Clock : toggleTodo(id)
    \/ \E id \in Clock : deleteTodo(id)
    \/ clearCompleted

\* a text with no character other than white space
OnlyWhiteSpace(text) == \A i \in 1..Len(text) : text[i] \in WhiteSpace

\* the indices of the tasks with the id
Matching(arr, id) == {i \in 1..Len(arr) : arr[i].id = id}

\* arr without its element at i
RemoveAt(arr, i) == SubSeq(arr, 1, i - 1) \o SubSeq(arr, i + 1, Len(arr))

Active(arr) == SelectSeq(arr, LAMBDA t : ~t.completed)

Completed(arr) == SelectSeq(arr, LAMBDA t : t.completed)

\* the stored entry of a key: <<text>>, or << >> when the key is absent
Entry(store, key) == IF key \in DOMAIN store THEN <<store[key]>> ELSE << >>

\* C1: no two tasks of the collection have the same id.
C1_UniqueIds ==
    \A i, j \in 1..Len(todos) : i # j => todos[i].id # todos[j].id

\* C2: adding a text that is not blank makes the collection one longer, with
\* the new task (given text and priority, not completed) first and the
\* previous collection after it, unchanged and in the same order.
C2_AddPrepends ==
    [][\A text \in {x \in Texts : ~OnlyWhiteSpace(x)}, priority \in Priorities :
          addTodo(text, priority) =>
              /\ Len(todos') = Len(todos) + 1
              /\ todos'[1].text = text
              /\ todos'[1].priority = priority
              /\ todos'[1].completed = FALSE
              /\ \A i \in 1..Len(todos) : todos'[i + 1] = todos[i]]_vars

\* C2 happens: a task was added in front of two others.
C2_Witness ==
    /\ last = "addTodo"
    /\ Len(todos) = 3
    /\ todos[1].id > todos[2].id
    /\ todos[2].id > todos[3].id
    /\ ~todos[1].completed
    /\ todos[2].completed
    /\ todos[1].text = <<" ", "a">>
    /\ todos[1].priority = "high"

\* C3: adding an empty or white-space-only text changes neither the
\* collection, nor the filter, nor the stored modern_todos entry, and the
\* application keeps running.
C3_BlankAddIsNoOp ==
    [][\A text \in {x \in Texts : OnlyWhiteSpace(x)} :
          AddStep(text) =>
              /\ todos' = todos
              /\ filter' = filter
              /\ Entry(storage', TodosKey) = Entry(storage, TodosKey)
              /\ status' = "running"]_vars

\* C3 happens: a blank text was submitted over a collection that holds tasks.
C3_Witness ==
    /\ last = "addTodo_blank"
    /\ Len(todos) >= 2
    /\ filter = "active"

\* C4: toggling an id flips the completed field of the one task with that
\* id and leaves every other task, the length and the order as they were;
\* with no such task the collection is unchanged.
C4_ToggleFlipsOne ==
    [][\A id \in Clock :
          toggleTodo(id) =>
              IF Matching(todos, id) = {} THEN todos' = todos
              ELSE \E i \in Matching(todos, id) :
                       todos' = [todos EXCEPT ![i].completed = ~todos[i].completed]]_vars

\* C5: deleting the id of a task removes exactly that one task, the others
\* staying as they were and in their order; with no such task the
\* collection is unchanged.
C5_DeleteRemovesOne ==
    [][\A id \in Clock :
          deleteTodo(id) =>
              IF Matching(todos, id) = {} THEN todos' = todos
              ELSE /\ Len(todos') = Len(todos) - 1
                   /\ \E i \in Matching(todos, id) : todos' = RemoveAt(todos, i)]_vars

\* C6: clearCompleted leaves exactly the tasks that are not completed,
\* unchanged and in their order.
C6_ClearKeepsActive ==
    [][clearCompleted =>
          /\ todos' = Active(todos)
          /\ \A i \in 1..Len(todos') : ~todos'[i].completed
          /\ Len(todos') = Cardinality({i \in 1..Len(todos) : ~todos[i].completed})]_vars

\* C6 happens: completed tasks were cleared and two tasks remain.
C6_Witness ==
    /\ last = "clearCompleted"
    /\ Len(todos) = 2
    /\ todos[1].id # todos[2].id

\* C7: the list given to the view is the tasks of the current collection
\* that the current filter selects, in the order of the collection.
C7_VisibleIsCurrent ==
    status = "running" =>
        memo = CASE filter = "active" -> Active(todos)
                 [] filter = "completed" -> Completed(todos)
                 [] filter = "all" -> todos

\* C7 happens: a task was toggled while a filter hides part of the collection.
C7_Witness ==
    /\ last = "toggleTodo"
    /\ filter = "completed"
    /\ Len(todos) = 3
    /\ Len(memo) = 2
    /\ ~todos[2].completed

\* C8: after a mutation the stored modern_todos entry is the serialisation
\* of the collection, and loading it gives the collection back.
C8_StoredIsCurrent ==
    (status = "running"
        /\ last \in {"addTodo", "toggleTodo", "deleteTodo",
                     "clearCompleted", "clearCompleted_none"}) =>
        /\ Entry(storage, TodosKey) = <<JSON_stringify(todos)>>
        /\ \E m \in {Mount(storage)} : m.status = "running" /\ m.todos = todos

\* C8 happens: a mutation left a collection of several tasks, some completed.
C8_Witness ==
    /\ last = "deleteTodo"
    /\ Len(todos) = 2
    /\ todos[1].completed
    /\ ~todos[2].completed
    /\ todos[1].id # todos[2].id

\* C9: whatever text the two entries hold, a start never ends in an error
\* state: the application runs, over defaults where an entry is absent or
\* unreadable.
C9_StartupFallsBack ==
    last \in {"mount", "restart"} => status = "running"

\* C10: the filter buttons and the theme button leave the collection and
\* its stored entry alone, the filter is not written to storage, the
\* mutations leave filter, theme and the stored theme alone, and the filter
\* is "all" after a restart.  (Each frame is stated from the side of what
\* changed: a step that changes X is not a step of a handler that must
\* leave X alone.)
C10_Frames ==
    [][/\ (todos' # todos \/ Entry(storage', TodosKey) # Entry(storage, TodosKey))
            => ~((\E f \in Filters : setFilter(f)) \/ toggleDark)
       /\ storage' # storage => ~(\E f \in Filters : setFilter(f))
       /\ (filter' # filter \/ dark' # dark
                \/ Entry(storage', ThemeKey) # Entry(storage, ThemeKey))
            => ~MutationStep
       /\ DOMAIN storage' \subseteq {TodosKey, ThemeKey}
       /\ (last' = "restart" /\ status' = "running" /\ Restart) => filter' = "all"]_vars

\* C10 happens: the theme was flipped while a filter is set and tasks exist.
C10_Witness ==
    /\ last = "toggleDark"
    /\ dark
    /\ filter = "completed"
    /\ Len(todos) >= 1

====
